---- MODULE Spec2Model ----
(***************************************************************************)
(* A model of the multi-tenant authorization and shipment status core of   *)
(* the shipment tracker backend (apps/backend/app).                        *)
(*                                                                         *)
(* The store (users, shipments, status history, change log) is the shared  *)
(* state.  Every HTTP handler is a function from (store, request) to       *)
(* (store', response), written as an operator that returns the response   *)
(* (code, body) together with the tables it leaves; the action of a        *)
(* handler applies the operator to the store.                              *)
(***************************************************************************)
EXTENDS Integers, Sequences, FiniteSets, TLC

VARIABLES
    users,      \* users table: user id -> [role, org, ff]
    tokens,     \* JWTs issued so far: claims [uid, org]
    shipments,  \* shipments table: shipment id -> row
    history,    \* shipment_status_history rows, in insertion order
    changelog,  \* shipment_change_log rows, in insertion order
    req         \* in-flight status requests of the concurrent workers

vars == <<users, tokens, shipments, history, changelog, req>>

----------------------------------------------------------------------------
(* Domains *)

\* organization_id IS NULL / fulfillment IS NULL / a missing header
None == "None"

Orgs == {"T1", "T2"}

Roles == {"admin", "owner", "supplier", "ff", "driver"}

\* names of fulfillment centers
FFNames == {"FF_A", "FF_B"}

\* current_status given by create_shipment
Unconfirmed == "NEW_SHIPMENT"

Actions == {"SENT_FROM_FACTORY", "SHIPPED_FROM_FF", "DELIVERED"}

Statuses == {None, Unconfirmed} \cup Actions

\* shipments the store holds at most (the greatest sequence number of an id)
MaxShipments == 1

\* change-log rows the store holds at most
MaxChangeLog == 1

\* status-history rows the store holds at most
MaxHistory == 3

\* digits of the counter: decimal
Radix == 10

\* the width the counter of an id is zero-padded to.  The source pads to 4;
\* the width is scaled so that the counter outgrows it after Radix^SeqDigits
\* - 1 shipments of a tenant.
SeqDigits == 2

\* the decimal digits of n, most significant first
RECURSIVE DigitsOf(_)
DigitsOf(n) == IF n < Radix THEN <<n>> ELSE Append(DigitsOf(n \div Radix), n % Radix)

\* f"{n:0{SeqDigits}d}": zeros on the left up to the width, never a cut
RECURSIVE ZeroPad(_)
ZeroPad(d) == IF Len(d) >= SeqDigits THEN d ELSE ZeroPad(<<0>> \o d)

FormatSeq(n) == ZeroPad(DigitsOf(n))

\* int(...) of a string of digits
RECURSIVE ParseSeq(_)
ParseSeq(d) ==
    IF d = <<>> THEN 0
    ELSE ParseSeq(SubSeq(d, 1, Len(d) - 1)) * Radix + d[Len(d)]

\* the order of strings: a < b
RECURSIVE StringLess(_, _)
StringLess(a, b) ==
    IF b = <<>> THEN FALSE
    ELSE IF a = <<>> THEN TRUE
    ELSE IF Head(a) # Head(b) THEN Head(a) < Head(b)
    ELSE StringLess(Tail(a), Tail(b))

\* the id SHIP-{org}-{counter}, as the pair of the organization and the
\* counter's digits
ShipmentId(org, n) == <<org, FormatSeq(n)>>

\* the ids requests name
ShipIds == {ShipmentId(o, n) : o \in Orgs, n \in 1..MaxShipments}

\* Idempotency-Key header values a client sends; NoKey is the absent header
ClientKeys == {[src |-> "client", n |-> 1, w |-> "-"]}

NoKey == [src |-> "absent", n |-> 0, w |-> "-"]

----------------------------------------------------------------------------
(* Bags and totals *)

RECURSIVE SumSeq(_)
SumSeq(s) == IF s = <<>> THEN 0 ELSE Head(s) + SumSeq(Tail(s))

RECURSIVE SumSizes(_, _)
SumSizes(sizes, labels) ==
    IF labels = {} THEN 0
    ELSE LET l == CHOOSE x \in labels : TRUE
         IN  sizes[l] + SumSizes(sizes, labels \ {l})

\* sum(item_sizes.values()) for every item of a bag
BagPieces(bag) ==
    SumSeq([i \in 1..Len(bag.items) |->
              SumSizes(bag.items[i].sizes, DOMAIN bag.items[i].sizes)])

TotalPieces(bags) == SumSeq([i \in 1..Len(bags) |-> BagPieces(bags[i])])

TotalBags(bags) == Len(bags)

BagsOne ==
    << [bag_id |-> "BAG-1",
        items  |-> << [model |-> "shirt", color |-> "red",
                       sizes |-> [S |-> 2, M |-> 1]] >>] >>

BagsTwo ==
    << [bag_id |-> "BAG-1",
        items  |-> << [model |-> "shirt", color |-> "red",
                       sizes |-> [S |-> 1]] >>],
       [bag_id |-> "BAG-2",
        items  |-> << [model |-> "pants", color |-> "black",
                       sizes |-> [M |-> 1, L |-> 2]] >>] >>

----------------------------------------------------------------------------
(* Authentication: core/dependencies.py *)

\* get_current_user trusting the user row alone
GetCurrentUserByIdOnly(t) ==
    IF t \notin tokens
      THEN [ok |-> FALSE, code |-> 401, detail |-> "Invalid authentication credentials"]
    ELSE IF t.uid \notin DOMAIN users
      THEN [ok |-> FALSE, code |-> 401, detail |-> "User not found"]
    ELSE [ok |-> TRUE, id |-> t.uid, role |-> users[t.uid].role,
          org |-> users[t.uid].org, ff |-> users[t.uid].ff]

\* get_current_user: the user row of the store, or the 401 raised.  A token
\* outside tokens is one decode_access_token refuses.
GetCurrentUser(t) ==
    IF t \notin tokens
      THEN [ok |-> FALSE, code |-> 401, detail |-> "Invalid authentication credentials"]
    ELSE IF t.org = None
      THEN [ok |-> FALSE, code |-> 401, detail |-> "Invalid token payload"]
    ELSE IF t.uid \notin DOMAIN users
      THEN [ok |-> FALSE, code |-> 401, detail |-> "User not found"]
    ELSE IF users[t.uid].org # t.org
      THEN [ok |-> FALSE, code |-> 401, detail |-> "Organization mismatch in token"]
    ELSE [ok |-> TRUE, id |-> t.uid, role |-> users[t.uid].role,
          org |-> users[t.uid].org, ff |-> users[t.uid].ff]

\* current_user=None, the default of the service's functions
NoUser == [ok |-> FALSE, id |-> None, role |-> None, org |-> None, ff |-> None]

AuthError(a) == [code |-> a.code, body |-> [kind |-> "Unauthorized", detail |-> a.detail]]

----------------------------------------------------------------------------
(* Reading shipments: services/shipment_service.py *)

NotFound == [code |-> 404,
             body |-> [kind |-> "NotFound",
                       detail |-> "Shipment not found or access denied"]]

\* the double check of update_status and update_shipment
OtherOrganization ==
    [code |-> 403,
     body |-> [kind |-> "Forbidden",
               detail |-> "Cannot update shipment from different organization"]]

\* a lookup by id alone
LookupById(ships, sid, org) == sid \in DOMAIN ships

\* select(Shipment).where(id == shipment_id, organization_id == organization_id)
\* finds a row
LookupShipment(ships, sid, org) ==
    sid \in DOMAIN ships /\ ships[sid].org = org

\* the rows of a shipment's status history, most recent first
RECURSIVE EventsOf(_, _)
EventsOf(hist, sid) ==
    IF hist = <<>> THEN <<>>
    ELSE LET n == Len(hist)
             rest == EventsOf(SubSeq(hist, 1, n - 1), sid)
         IN  IF hist[n].shipment_id = sid
               THEN <<[id |-> n, status |-> hist[n].status,
                       changed_by |-> hist[n].changed_by]>> \o rest
               ELSE rest

ShipmentView(ships, hist, sid) ==
    [kind |-> "Shipment",
     shipment |-> [id |-> sid,
                   supplier |-> ships[sid].supplier,
                   warehouse |-> ships[sid].warehouse,
                   route_type |-> ships[sid].route_type,
                   shipment_type |-> ships[sid].shipment_type,
                   fulfillment |-> ships[sid].fulfillment,
                   shipment_date |-> ships[sid].shipment_date,
                   current_status |-> ships[sid].current_status,
                   bags |-> ships[sid].bags_data,
                   totals |-> [bags |-> ships[sid].total_bags,
                               pieces |-> ships[sid].total_pieces]],
     events |-> EventsOf(hist, sid)]

\* the FF check of get_shipment: the user's center must be the shipment's
FFDenied(usrs, ships, sid, user) ==
    /\ user.id # None
    /\ user.role = "ff"
    /\ IF user.id \in DOMAIN usrs /\ usrs[user.id].ff # None
         THEN ships[sid].fulfillment # usrs[user.id].ff
         ELSE TRUE

\* get_shipment telling a shipment of another organization from an absent one
ServiceGetShipmentTelling(usrs, ships, hist, sid, org, user) ==
    IF sid \notin DOMAIN ships THEN NotFound
    ELSE IF ships[sid].org # org THEN OtherOrganization
    ELSE IF FFDenied(usrs, ships, sid, user) THEN NotFound
    ELSE [code |-> 200, body |-> ShipmentView(ships, hist, sid)]

\* ShipmentService.get_shipment(db, shipment_id, organization_id, current_user)
ServiceGetShipment(usrs, ships, hist, sid, org, user) ==
    IF ~LookupShipment(ships, sid, org) THEN NotFound
    ELSE IF FFDenied(usrs, ships, sid, user) THEN NotFound
    ELSE [code |-> 200, body |-> ShipmentView(ships, hist, sid)]

\* GET /shipments/{shipment_id}: the handler passes no current_user
ApiGetShipment(t, sid) ==
    LET a == GetCurrentUser(t) IN
    IF ~a.ok THEN AuthError(a)
    ELSE ServiceGetShipment(users, shipments, history, sid, a.org, NoUser)

\* the rows of a listing, ORDER BY created_at DESC
RECURSIVE NewestFirst(_, _)
NewestFirst(ships, ids) ==
    IF ids = {} THEN <<>>
    ELSE LET top == CHOOSE i \in ids :
                       \A j \in ids : ships[j].created_at <= ships[i].created_at
         IN  <<top>> \o NewestFirst(ships, ids \ {top})

ListItem(ships, sid) ==
    [id |-> sid,
     supplier |-> ships[sid].supplier,
     warehouse |-> ships[sid].warehouse,
     route_type |-> ships[sid].route_type,
     shipment_type |-> ships[sid].shipment_type,
     fulfillment |-> ships[sid].fulfillment,
     current_status |-> ships[sid].current_status,
     total_bags |-> ships[sid].total_bags,
     total_pieces |-> ships[sid].total_pieces]

\* .limit(limit).offset(offset)
Page(rows, limit, offset) ==
    SubSeq(rows, offset + 1,
           IF offset + limit < Len(rows) THEN offset + limit ELSE Len(rows))

\* list_shipments answering a missing user and a driver as everyone else
ServiceListShipmentsUnguarded(usrs, ships, org, user, status, supplier, limit, offset) ==
    IF org = None THEN <<>>
    ELSE LET ids == {i \in DOMAIN ships :
                       /\ ships[i].org = org
                       /\ status # None => ships[i].current_status = status
                       /\ supplier # None => ships[i].supplier = supplier}
             rows == NewestFirst(ships, ids)
             page == Page(rows, limit, offset)
         IN  [k \in 1..Len(page) |-> ListItem(ships, page[k])]

\* ShipmentService.list_shipments(db, organization_id, current_user, status,
\* supplier, limit, offset); a filter of None is no filter
ServiceListShipments(usrs, ships, org, user, status, supplier, limit, offset) ==
    IF user.id = None THEN <<>>
    ELSE IF user.role = "driver" THEN <<>>
    ELSE IF org = None THEN <<>>
    ELSE IF user.role = "ff" /\ ~(user.id \in DOMAIN usrs /\ usrs[user.id].ff # None)
      THEN <<>>
    ELSE LET ids == {i \in DOMAIN ships :
                       /\ ships[i].org = org
                       /\ user.role = "ff" => ships[i].fulfillment = usrs[user.id].ff
                       /\ status # None => ships[i].current_status = status
                       /\ supplier # None => ships[i].supplier = supplier}
             rows == NewestFirst(ships, ids)
             page == Page(rows, limit, offset)
         IN  [k \in 1..Len(page) |-> ListItem(ships, page[k])]

\* GET /shipments/: the handler passes no current_user
ApiListShipments(t, status, supplier, limit, offset) ==
    LET a == GetCurrentUser(t) IN
    IF ~a.ok THEN AuthError(a)
    ELSE [code |-> 200,
          body |-> [kind |-> "List",
                    items |-> ServiceListShipments(users, shipments, a.org, NoUser,
                                                   status, supplier, limit, offset)]]

----------------------------------------------------------------------------
(* Status transitions: api/v1/shipments.py, services/shipment_service.py *)

\* role_permissions naming every role for every status
RolePermissionsOpen(action) == Roles

\* role_permissions with the supplier among the roles of every status
RolePermissionsLax(action) ==
    CASE action = "SENT_FROM_FACTORY" -> {"supplier", "admin"}
      [] action = "SHIPPED_FROM_FF"   -> {"supplier", "ff", "admin"}
      [] action = "DELIVERED"         -> {"supplier", "driver", "warehouse", "admin"}
      [] OTHER                        -> {}

\* role_permissions of create_shipment_event
RolePermissions(action) ==
    CASE action = "SENT_FROM_FACTORY" -> {"supplier", "admin"}
      [] action = "SHIPPED_FROM_FF"   -> {"ff", "admin"}
      [] action = "DELIVERED"         -> {"driver", "warehouse", "admin"}
      [] OTHER                        -> {}

Forbidden(role, action) ==
    [code |-> 403,
     body |-> [kind |-> "Forbidden", role |-> role, action |-> action]]

\* valid_transitions with the factory stage optional
ValidTransitionsSkip(current) ==
    CASE current = None                -> {"SENT_FROM_FACTORY"}
      [] current = Unconfirmed         -> {"SENT_FROM_FACTORY", "SHIPPED_FROM_FF"}
      [] current = "SENT_FROM_FACTORY" -> {"SHIPPED_FROM_FF"}
      [] current = "SHIPPED_FROM_FF"   -> {"DELIVERED"}
      [] current = "DELIVERED"         -> {}
      [] OTHER                         -> {}

\* valid_transitions of _validate_status_transition
ValidTransitions(current) ==
    CASE current = None                -> {"SENT_FROM_FACTORY"}
      [] current = Unconfirmed         -> {"SENT_FROM_FACTORY"}
      [] current = "SENT_FROM_FACTORY" -> {"SHIPPED_FROM_FF"}
      [] current = "SHIPPED_FROM_FF"   -> {"DELIVERED"}
      [] current = "DELIVERED"         -> {}
      [] OTHER                         -> {}

InvalidTransition(current, new) ==
    [code |-> 400,
     body |-> [kind |-> "InvalidTransition", from |-> current, to |-> new]]

\* select(ShipmentStatusHistory).where(idempotency_key == key) finds a row
KeyUsed(hist, key) == \E i \in 1..Len(hist) : hist[i].idempotency_key = key

\* idempotency_key = "" for every request without the header
FreshKeyConstant(hist, w) == [src |-> "uuid", n |-> 0, w |-> "-"]

\* str(uuid.uuid4()): a key no row and no other request carries
FreshKey(hist, w) ==
    LET free == {n \in (Len(hist) + 1)..(2 * Len(hist) + 1) :
                    ~KeyUsed(hist, [src |-> "uuid", n |-> n, w |-> w])}
    IN  [src |-> "uuid", n |-> CHOOSE n \in free : \A m \in free : n <= m, w |-> w]

HistoryRow(sid, action, user, key) ==
    [shipment_id |-> sid, status |-> action, changed_by |-> user.id,
     organization_id |-> user.org, idempotency_key |-> key]

Outcome(r, ships, hist) ==
    [code |-> r.code, body |-> r.body, shipments |-> ships, history |-> hist]

\* ShipmentService.update_status, run without interruption
UpdateStatus(usrs, ships, hist, sid, action, user, key) ==
    IF ~LookupShipment(ships, sid, user.org)
      THEN Outcome(NotFound, ships, hist)
    ELSE IF ships[sid].org # user.org
      THEN Outcome(OtherOrganization, ships, hist)
    ELSE IF action \notin ValidTransitions(ships[sid].current_status)
      THEN Outcome(InvalidTransition(ships[sid].current_status, action), ships, hist)
    ELSE IF KeyUsed(hist, key)
      THEN Outcome(ServiceGetShipment(usrs, ships, hist, sid, user.org, user),
                   ships, hist)
    ELSE LET ships2 == [ships EXCEPT ![sid].current_status = action]
             hist2  == Append(hist, HistoryRow(sid, action, user, key))
         IN  Outcome(ServiceGetShipment(usrs, ships2, hist2, sid, user.org, user),
                     ships2, hist2)

\* POST /shipments/{shipment_id}/events
CreateShipmentEvent(t, sid, action, hdrKey) ==
    LET a == GetCurrentUser(t) IN
    IF ~a.ok THEN Outcome(AuthError(a), shipments, history)
    ELSE IF a.role \notin RolePermissions(action)
      THEN Outcome(Forbidden(a.role, action), shipments, history)
    ELSE UpdateStatus(users, shipments, history, sid, action, a,
                      IF hdrKey = NoKey THEN FreshKey(history, "-") ELSE hdrKey)

----------------------------------------------------------------------------
(* Creating and editing shipments *)

\* ORDER BY id DESC LIMIT 1 over ids SHIP-{org}-%: the greatest as a string
LastId(ids) == CHOOSE i \in ids : \A j \in ids : ~StringLess(i[2], j[2])

\* the counter after the one of the last id of the organization
NextSeq(ships, org) ==
    LET ids == {j \in DOMAIN ships : ships[j].org = org /\ j[1] = org}
    IN  IF ids = {} THEN 1 ELSE ParseSeq(LastId(ids)[2]) + 1

ServerError == [code |-> 500, body |-> [kind |-> "ServerError"]]

NewShipment(ships, data, org) ==
    [org |-> org,
     supplier |-> data.supplier,
     warehouse |-> data.warehouse,
     route_type |-> data.route_type,
     shipment_type |-> data.shipment_type,
     fulfillment |-> data.fulfillment,
     shipment_date |-> data.shipment_date,
     bags_data |-> data.bags_data,
     total_bags |-> TotalBags(data.bags_data),
     total_pieces |-> TotalPieces(data.bags_data),
     current_status |-> Unconfirmed,
     created_at |-> Cardinality(DOMAIN ships) + 1]

\* ShipmentService.create_shipment(db, shipment_data, organization_id)
ServiceCreateShipment(ships, data, org) ==
    LET sid == ShipmentId(org, NextSeq(ships, org)) IN
    IF sid \in DOMAIN ships
      THEN [code |-> ServerError.code, body |-> ServerError.body, shipments |-> ships]
    ELSE LET ships2 == ships @@ (sid :> NewShipment(ships, data, org))
         IN  [code |-> 201,
              body |-> [kind |-> "Shipment",
                        shipment |-> ShipmentView(ships2, <<>>, sid).shipment,
                        events |-> <<>>],
              shipments |-> ships2]

\* POST /shipments/: any authenticated user
ApiCreateShipment(t, data) ==
    LET a == GetCurrentUser(t) IN
    IF ~a.ok
      THEN [code |-> AuthError(a).code, body |-> AuthError(a).body,
            shipments |-> shipments]
    ELSE ServiceCreateShipment(shipments, data, a.org)

\* the fields update_shipment compares, in its order
UpdateFields ==
    <<"supplier", "warehouse", "route_type", "shipment_type", "fulfillment",
      "shipment_date", "bags_data">>

ChangeType(f) == IF f = "bags_data" THEN "bag_contents" ELSE f

\* log_change called with the value read after the assignment
ChangeLogRowAfter(sid, user, f, old, new) ==
    [shipment_id |-> sid, changed_by |-> user.id, change_type |-> ChangeType(f),
     old_value |-> new, new_value |-> new, organization_id |-> user.org]

\* ShipmentChangeLogService.log_change: the row added
ChangeLogRow(sid, user, f, old, new) ==
    [shipment_id |-> sid, changed_by |-> user.id, change_type |-> ChangeType(f),
     old_value |-> old, new_value |-> new, organization_id |-> user.org]

\* an update that stores the new bags and leaves the totals as they were
SetFieldKeepingTotals(row, f, v) == [row EXCEPT ![f] = v]

\* an update that also puts the shipment back to its first status
SetFieldResettingStatus(row, f, v) ==
    [row EXCEPT ![f] = v, !.current_status = Unconfirmed]

SetField(row, f, v) ==
    IF f = "bags_data"
      THEN [row EXCEPT !.bags_data = v,
                       !.total_bags = TotalBags(v),
                       !.total_pieces = TotalPieces(v)]
      ELSE [row EXCEPT ![f] = v]

\* update_shipment assigning and logging every field the patch names
RECURSIVE ApplyPatchAlways(_, _, _, _, _, _)
ApplyPatchAlways(row, log, fields, patch, sid, user) ==
    IF fields = <<>> THEN [row |-> row, log |-> log]
    ELSE LET f == Head(fields) IN
         IF f \in DOMAIN patch
           THEN ApplyPatchAlways(SetField(row, f, patch[f]),
                                 Append(log, ChangeLogRow(sid, user, f, row[f], patch[f])),
                                 Tail(fields), patch, sid, user)
           ELSE ApplyPatchAlways(row, log, Tail(fields), patch, sid, user)

\* the field-by-field part of update_shipment on one row
RECURSIVE ApplyPatch(_, _, _, _, _, _)
ApplyPatch(row, log, fields, patch, sid, user) ==
    IF fields = <<>> THEN [row |-> row, log |-> log]
    ELSE LET f == Head(fields) IN
         IF f \in DOMAIN patch /\ patch[f] # row[f]
           THEN ApplyPatch(SetField(row, f, patch[f]),
                           Append(log, ChangeLogRow(sid, user, f, row[f], patch[f])),
                           Tail(fields), patch, sid, user)
           ELSE ApplyPatch(row, log, Tail(fields), patch, sid, user)

Outcome3(r, ships, log) ==
    [code |-> r.code, body |-> r.body, shipments |-> ships, changelog |-> log]

\* ShipmentService.update_shipment, run without interruption
ServiceUpdateShipment(usrs, ships, hist, log, sid, patch, user) ==
    IF ~LookupShipment(ships, sid, user.org)
      THEN Outcome3(NotFound, ships, log)
    ELSE IF ships[sid].org # user.org
      THEN Outcome3(OtherOrganization, ships, log)
    ELSE LET p == ApplyPatch(ships[sid], log, UpdateFields, patch, sid, user)
             ships2 == [ships EXCEPT ![sid] = p.row]
         IN  Outcome3(ServiceGetShipment(usrs, ships2, hist, sid, user.org, user),
                      ships2, p.log)

OnlySuppliers == [code |-> 403,
                  body |-> [kind |-> "Forbidden",
                            detail |-> "Only suppliers can edit shipments"]]

\* PUT /shipments/{shipment_id} open to every role
ApiUpdateShipmentAnyRole(t, sid, patch) ==
    LET a == GetCurrentUser(t) IN
    IF ~a.ok THEN Outcome3(AuthError(a), shipments, changelog)
    ELSE ServiceUpdateShipment(users, shipments, history, changelog, sid, patch, a)

\* PUT /shipments/{shipment_id}
ApiUpdateShipment(t, sid, patch) ==
    LET a == GetCurrentUser(t) IN
    IF ~a.ok THEN Outcome3(AuthError(a), shipments, changelog)
    ELSE IF a.role \notin {"supplier", "admin"}
      THEN Outcome3(OnlySuppliers, shipments, changelog)
    ELSE ServiceUpdateShipment(users, shipments, history, changelog, sid, patch, a)

----------------------------------------------------------------------------
(* Membership: services/auth_service.py, api/v1/users.py *)

\* AuthService.authenticate_user with the user's password: the token issued.
\* UserResponse.organization_id is an int, so the response of a user without
\* an organization cannot be built and no token leaves the server.
AuthenticateUser(usrs, u) ==
    IF u \notin DOMAIN usrs
      THEN [code |-> 401, issued |-> {}]
    ELSE IF usrs[u].org = None
      THEN [code |-> 500, issued |-> {}]
    ELSE [code |-> 200, issued |-> {[uid |-> u, org |-> usrs[u].org]}]

UserOutcome(code, usrs, hist) == [code |-> code, users |-> usrs, history |-> hist]

\* the rows left after ON DELETE of a user's status_changes (delete-orphan)
RECURSIVE WithoutRowsOf(_, _)
WithoutRowsOf(hist, u) ==
    IF hist = <<>> THEN <<>>
    ELSE IF Head(hist).changed_by = u
      THEN WithoutRowsOf(Tail(hist), u)
      ELSE <<Head(hist)>> \o WithoutRowsOf(Tail(hist), u)

\* DELETE /users/{user_id}
ApiDeleteUser(t, target) ==
    LET a == GetCurrentUser(t) IN
    IF ~a.ok THEN UserOutcome(a.code, users, history)
    ELSE IF a.role \notin {"admin", "owner"} THEN UserOutcome(403, users, history)
    ELSE IF target \notin DOMAIN users THEN UserOutcome(404, users, history)
    ELSE IF target = a.id THEN UserOutcome(400, users, history)
    ELSE IF a.role = "owner"
      THEN IF users[target].org # a.org THEN UserOutcome(403, users, history)
           ELSE IF users[target].org = None THEN UserOutcome(400, users, history)
           ELSE UserOutcome(204, [users EXCEPT ![target].org = None], history)
    ELSE IF \E i \in 1..Len(changelog) : changelog[i].changed_by = target
      THEN UserOutcome(500, users, history)
    ELSE UserOutcome(204, [u \in DOMAIN users \ {target} |-> users[u]],
                     WithoutRowsOf(history, target))

\* POST /users/
ApiCreateUser(t, name, role_name, org, ff) ==
    LET a == GetCurrentUser(t) IN
    IF ~a.ok THEN UserOutcome(a.code, users, history)
    ELSE IF a.role \notin {"admin", "owner"} THEN UserOutcome(403, users, history)
    ELSE IF a.role = "owner" /\ org # a.org THEN UserOutcome(403, users, history)
    ELSE IF name \in DOMAIN users THEN UserOutcome(400, users, history)
    ELSE IF role_name \notin Roles THEN UserOutcome(400, users, history)
    ELSE IF org \notin Orgs THEN UserOutcome(400, users, history)
    ELSE IF ff # None /\ ff \notin FFNames THEN UserOutcome(400, users, history)
    ELSE UserOutcome(201,
                     users @@ (name :> [role |-> role_name, org |-> org, ff |-> ff]),
                     history)

\* add-existing without the check of the user's present organization
ApiAddExistingUserFromAnywhere(t, target) ==
    LET a == GetCurrentUser(t) IN
    IF ~a.ok THEN UserOutcome(a.code, users, history)
    ELSE IF a.role # "owner" THEN UserOutcome(403, users, history)
    ELSE IF target \notin DOMAIN users THEN UserOutcome(404, users, history)
    ELSE IF target = a.id THEN UserOutcome(400, users, history)
    ELSE IF users[target].role = "admin" THEN UserOutcome(403, users, history)
    ELSE IF users[target].org = a.org THEN UserOutcome(400, users, history)
    ELSE UserOutcome(200, [users EXCEPT ![target].org = a.org], history)

\* POST /users/add-existing
ApiAddExistingUser(t, target) ==
    LET a == GetCurrentUser(t) IN
    IF ~a.ok THEN UserOutcome(a.code, users, history)
    ELSE IF a.role # "owner" THEN UserOutcome(403, users, history)
    ELSE IF target \notin DOMAIN users THEN UserOutcome(404, users, history)
    ELSE IF target = a.id THEN UserOutcome(400, users, history)
    ELSE IF users[target].role = "admin" THEN UserOutcome(403, users, history)
    ELSE IF users[target].org = a.org THEN UserOutcome(400, users, history)
    ELSE IF users[target].org # None THEN UserOutcome(400, users, history)
    ELSE UserOutcome(200, [users EXCEPT ![target].org = a.org], history)

----------------------------------------------------------------------------
(* Requests as actions: each applies its handler to the store.  A GET      *)
(* leaves the store as it is.  The user_logs rows the handlers add are     *)
(* read by none of them and are not among the variables.                   *)

Workers == {"w1", "w2"}

Idle == [pc |-> "idle"]

\* limit and offset as the handler defaults them
DefaultLimit == 20

GetShipment(t, sid) ==
    /\ ApiGetShipment(t, sid).code \in {200, 401, 404}
    /\ UNCHANGED vars

ListShipments(t, status, supplier) ==
    /\ ApiListShipments(t, status, supplier, DefaultLimit, 0).code \in {200, 401}
    /\ UNCHANGED vars

TransitionStatus(t, sid, action, hdrKey) ==
    LET r == CreateShipmentEvent(t, sid, action, hdrKey) IN
    /\ Len(r.history) <= MaxHistory
    /\ shipments' = r.shipments
    /\ history' = r.history
    /\ UNCHANGED <<users, tokens, changelog, req>>

\* POST /shipments/ while the store holds fewer than cap shipments
CreateShipmentWithin(cap, t, data) ==
    LET r == ApiCreateShipment(t, data) IN
    /\ Cardinality(DOMAIN shipments) < cap
    /\ shipments' = r.shipments
    /\ UNCHANGED <<users, tokens, history, changelog, req>>

CreateShipment(t, data) == CreateShipmentWithin(MaxShipments, t, data)

UpdateShipment(t, sid, patch) ==
    LET r == ApiUpdateShipment(t, sid, patch) IN
    /\ Len(r.changelog) <= MaxChangeLog
    /\ shipments' = r.shipments
    /\ changelog' = r.changelog
    /\ UNCHANGED <<users, tokens, history, req>>

Login(u) ==
    /\ tokens' = tokens \cup AuthenticateUser(users, u).issued
    /\ UNCHANGED <<users, shipments, history, changelog, req>>

DeleteUser(t, target) ==
    LET r == ApiDeleteUser(t, target) IN
    /\ users' = r.users
    /\ history' = r.history
    /\ UNCHANGED <<tokens, shipments, changelog, req>>

AddExistingUser(t, target) ==
    /\ users' = ApiAddExistingUser(t, target).users
    /\ UNCHANGED <<tokens, shipments, history, changelog, req>>

\* the new row's id is serial: an id no user holds and no token names
CreateUser(t, name, role_name, org, ff) ==
    /\ \A k \in tokens : k.uid # name
    /\ users' = ApiCreateUser(t, name, role_name, org, ff).users
    /\ UNCHANGED <<tokens, shipments, history, changelog, req>>

----------------------------------------------------------------------------
(* Users, tokens and payloads of the specifications *)

User(role, org, ff) == [role |-> role, org |-> org, ff |-> ff]

\* the token a login of user u yields
TokenOf(usrs, u) == [uid |-> u, org |-> usrs[u].org]

\* payloads of POST /shipments/
Payload(ff, bags) ==
    [supplier |-> "S1", warehouse |-> "W1", route_type |-> "VIA_FF",
     shipment_type |-> "BAGS", fulfillment |-> ff, shipment_date |-> None,
     bags_data |-> bags]

HeaderKeys == ClientKeys \cup {NoKey}

InitStore(usrs) ==
    /\ users = usrs
    /\ tokens = {TokenOf(usrs, u) : u \in DOMAIN usrs}
    /\ shipments = <<>>
    /\ history = <<>>
    /\ changelog = <<>>
    /\ req = [w \in Workers |-> Idle]

----------------------------------------------------------------------------
(* Spec: one request at a time, fixed membership, every role in tenant T1 *)

StatusUsers ==
    ("adm" :> User("admin", "T1", None)) @@
    ("own" :> User("owner", "T1", None)) @@
    ("sup" :> User("supplier", "T1", None)) @@
    ("ffa" :> User("ff", "T1", "FF_A")) @@
    ("drv" :> User("driver", "T1", None)) @@
    ("sup2" :> User("supplier", "T2", None))

Init == InitStore(StatusUsers)

Next ==
    \/ \E t \in tokens, f \in FFNames : CreateShipment(t, Payload(f, BagsOne))
    \/ \E t \in tokens, sid \in ShipIds : GetShipment(t, sid)
    \/ \E t \in tokens, sid \in ShipIds, a \in Actions, k \in HeaderKeys :
          TransitionStatus(t, sid, a, k)

Spec == Init /\ [][Next]_vars

----------------------------------------------------------------------------
(* SpecMember: users leave and join organizations between requests *)

MemberUsers ==
    ("own1" :> User("owner", "T1", None)) @@
    ("own2" :> User("owner", "T2", None)) @@
    ("sup" :> User("supplier", "T1", None)) @@
    ("drv" :> User("driver", "T2", None))

\* bodies of PUT /shipments/{shipment_id}
Patches ==
    {[warehouse |-> "W2"],
     [fulfillment |-> "FF_B", bags_data |-> BagsTwo]}

InitMember == InitStore(MemberUsers)

NextMember ==
    \/ \E u \in DOMAIN users : Login(u)
    \/ \E t \in tokens, u \in DOMAIN users : DeleteUser(t, u)
    \/ \E t \in tokens, u \in DOMAIN users : AddExistingUser(t, u)
    \/ \E t \in tokens : CreateShipment(t, Payload("FF_A", BagsOne))
    \/ \E t \in tokens, sid \in ShipIds : GetShipment(t, sid)
    \/ \E t \in tokens : ListShipments(t, None, None)
    \/ \E t \in tokens, sid \in ShipIds, p \in Patches : UpdateShipment(t, sid, p)
    \/ \E t \in tokens, sid \in ShipIds, a \in Actions, k \in HeaderKeys :
          TransitionStatus(t, sid, a, k)

SpecMember == InitMember /\ [][NextMember]_vars

\* bag collections the schema accepts (sizes: Dict[str, int], bag_id: str):
\* a negative quantity, and two bags with one bag_id
BagsNegative ==
    << [bag_id |-> "BAG-1",
        items  |-> << [model |-> "shirt", color |-> "red",
                       sizes |-> [S |-> -1, M |-> 1]] >>] >>

BagsDuplicate ==
    << [bag_id |-> "BAG-1",
        items  |-> << [model |-> "shirt", color |-> "red",
                       sizes |-> [S |-> 1]] >>],
       [bag_id |-> "BAG-1",
        items  |-> << [model |-> "pants", color |-> "black",
                       sizes |-> [M |-> 1]] >>] >>

----------------------------------------------------------------------------
(* SpecEdit: shipments are created and edited, one request at a time *)

\* bag collections of the requests: one bag, two bags, none
BagChoices == {BagsOne, BagsTwo, <<>>}

\* bodies of PUT /shipments/{shipment_id}
EditPatches ==
    {[warehouse |-> "W2"], [route_type |-> "DIRECT"],
     [bags_data |-> BagsOne], [bags_data |-> BagsTwo], [bags_data |-> <<>>],
     [warehouse |-> "W2", bags_data |-> BagsTwo]}

EditUsers ==
    ("adm" :> User("admin", "T1", None)) @@
    ("own" :> User("owner", "T1", None)) @@
    ("sup" :> User("supplier", "T1", None)) @@
    ("ffa" :> User("ff", "T1", "FF_A")) @@
    ("drv" :> User("driver", "T1", None))

\* the store as set up, nobody logged in yet
InitEdit ==
    /\ users = EditUsers
    /\ tokens = {}
    /\ shipments = <<>>
    /\ history = <<>>
    /\ changelog = <<>>
    /\ req = [w \in Workers |-> Idle]

NextEdit ==
    \/ \E u \in DOMAIN users : Login(u)
    \/ \E t \in tokens, b \in BagChoices : CreateShipment(t, Payload("FF_A", b))
    \/ \E t \in tokens, sid \in ShipIds : GetShipment(t, sid)
    \/ \E t \in tokens, sid \in ShipIds, p \in EditPatches : UpdateShipment(t, sid, p)

SpecEdit == InitEdit /\ [][NextEdit]_vars

----------------------------------------------------------------------------
(* SpecSeq: one tenant creates shipments until the counter outgrows its    *)
(* width                                                                   *)

\* one creation more than the counters of SeqDigits digits
SeqCap == Radix ^ SeqDigits + 1

SeqUsers ==
    ("own" :> User("owner", "T1", None)) @@
    ("sup" :> User("supplier", "T1", None))

InitSeq == InitStore(SeqUsers)

NextSeqSpec ==
    \/ \E t \in tokens : CreateShipmentWithin(SeqCap, t, Payload("FF_A", BagsOne))
    \/ \E t \in tokens, sid \in DOMAIN shipments : GetShipment(t, sid)

SpecSeq == InitSeq /\ [][NextSeqSpec]_vars

----------------------------------------------------------------------------
(* SpecCreate: POST /shipments/ in the steps of its statements.  Each      *)
(* request has its own session; the SELECT of the last id and the INSERT   *)
(* are separate statements, and Shipment.id is the primary key.            *)

\* the id is computed and the row built, nothing written yet
Prepared(sid, data, org) ==
    [pc |-> "prepared", sid |-> sid, data |-> data, org |-> org]

\* the request has its response
Finished(code, sid, data) ==
    [pc |-> "finished", code |-> code, sid |-> sid, data |-> data]

\* authentication, SELECT of the tenant's last id, the next id
BeginCreate(w, t, data) ==
    LET a == GetCurrentUser(t) IN
    /\ req[w].pc = "idle"
    /\ Cardinality(DOMAIN shipments) < MaxShipments
    /\ req' = IF a.ok
                THEN [req EXCEPT ![w] =
                        Prepared(ShipmentId(a.org, NextSeq(shipments, a.org)),
                                 data, a.org)]
                ELSE req
    /\ UNCHANGED <<users, tokens, shipments, history, changelog>>

\* INSERT as db.merge would do it: the row with the id is replaced
CommitCreateMerging(w) ==
    /\ req[w].pc = "prepared"
    /\ shipments' = [i \in DOMAIN shipments \cup {req[w].sid} |->
                        IF i = req[w].sid
                          THEN NewShipment(shipments, req[w].data, req[w].org)
                          ELSE shipments[i]]
    /\ req' = [req EXCEPT ![w] = Finished(201, req[w].sid, req[w].data)]
    /\ UNCHANGED <<users, tokens, history, changelog>>

\* db.add, COMMIT: the primary key fails the INSERT of an id committed
\* meanwhile; nothing catches the IntegrityError
CommitCreate(w) ==
    /\ req[w].pc = "prepared"
    /\ IF req[w].sid \in DOMAIN shipments
         THEN /\ req' = [req EXCEPT ![w] =
                           Finished(ServerError.code, req[w].sid, req[w].data)]
              /\ UNCHANGED shipments
         ELSE /\ shipments' = shipments @@
                     (req[w].sid :> NewShipment(shipments, req[w].data, req[w].org))
              /\ req' = [req EXCEPT ![w] = Finished(201, req[w].sid, req[w].data)]
    /\ UNCHANGED <<users, tokens, history, changelog>>

\* the response is sent; the worker takes the next request
Respond(w) ==
    /\ req[w].pc = "finished"
    /\ req' = [req EXCEPT ![w] = Idle]
    /\ UNCHANGED <<users, tokens, shipments, history, changelog>>

CreateUsers ==
    ("sup" :> User("supplier", "T1", None)) @@
    ("own" :> User("owner", "T1", None)) @@
    ("sup2" :> User("supplier", "T2", None))

InitCreate == InitStore(CreateUsers)

NextCreate ==
    \/ \E w \in Workers, t \in tokens, ff \in FFNames :
          BeginCreate(w, t, Payload(ff, BagsOne))
    \/ \E w \in Workers : CommitCreate(w)
    \/ \E w \in Workers : Respond(w)

SpecCreate == InitCreate /\ [][NextCreate]_vars

----------------------------------------------------------------------------
(* SpecAdmin: an admin deletes users of a tenant whose shipments they have *)
(* moved and edited                                                        *)

AdminUsers ==
    ("adm" :> User("admin", "T1", None)) @@
    ("sup" :> User("supplier", "T1", None)) @@
    ("ffa" :> User("ff", "T1", "FF_A"))

InitAdmin ==
    /\ users = AdminUsers
    /\ tokens = {}
    /\ shipments = <<>>
    /\ history = <<>>
    /\ changelog = <<>>
    /\ req = [w \in Workers |-> Idle]

NextAdmin ==
    \/ \E u \in DOMAIN users : Login(u)
    \/ \E t \in tokens, u \in DOMAIN users : DeleteUser(t, u)
    \/ \E t \in tokens : CreateShipment(t, Payload("FF_A", BagsOne))
    \/ \E t \in tokens, sid \in ShipIds : GetShipment(t, sid)
    \/ \E t \in tokens, sid \in ShipIds : UpdateShipment(t, sid, [warehouse |-> "W2"])
    \/ \E t \in tokens, sid \in ShipIds, a \in Actions, k \in HeaderKeys :
          TransitionStatus(t, sid, a, k)

SpecAdmin == InitAdmin /\ [][NextAdmin]_vars

----------------------------------------------------------------------------
(* SpecJoin: owners detach and attach users, an admin among them           *)

JoinUsers ==
    ("own1" :> User("owner", "T1", None)) @@
    ("own2" :> User("owner", "T2", None)) @@
    ("adm" :> User("admin", "T1", None)) @@
    ("sup" :> User("supplier", "T1", None))

InitJoin ==
    /\ users = JoinUsers
    /\ tokens = {}
    /\ shipments = <<>>
    /\ history = <<>>
    /\ changelog = <<>>
    /\ req = [w \in Workers |-> Idle]

NextJoin ==
    \/ \E u \in DOMAIN users : Login(u)
    \/ \E t \in tokens, u \in DOMAIN users : DeleteUser(t, u)
    \/ \E t \in tokens, u \in DOMAIN users : AddExistingUser(t, u)

SpecJoin == InitJoin /\ [][NextJoin]_vars

----------------------------------------------------------------------------
(* SpecOwner: owners of two tenants create, detach and attach users        *)

OwnerUsers ==
    ("own1" :> User("owner", "T1", None)) @@
    ("own2" :> User("owner", "T2", None)) @@
    ("sup" :> User("supplier", "T1", None)) @@
    ("drv" :> User("driver", "T2", None))

\* usernames and roles of the POST /users/ bodies
NewNames == {"new1"}

NewRoles == {"supplier", "admin"}

InitOwner ==
    /\ users = OwnerUsers
    /\ tokens = {}
    /\ shipments = <<>>
    /\ history = <<>>
    /\ changelog = <<>>
    /\ req = [w \in Workers |-> Idle]

NextOwner ==
    \/ \E u \in DOMAIN users : Login(u)
    \/ \E t \in tokens, u \in DOMAIN users : DeleteUser(t, u)
    \/ \E t \in tokens, u \in DOMAIN users : AddExistingUser(t, u)
    \/ \E t \in tokens, n \in NewNames, r \in NewRoles, o \in Orgs :
          CreateUser(t, n, r, o, None)

SpecOwner == InitOwner /\ [][NextOwner]_vars

----------------------------------------------------------------------------
(* SpecSheets: POST /shipments/ and POST /shipments/{id}/events with the    *)
(* call of the spreadsheet service that follows their commit.  The call    *)
(* either returns or raises; it reads and writes nothing of the store.     *)

SheetsOutcomes == {"synced", "raises"}

\* the request has committed and has not called the spreadsheet service yet
Committed(kind, sid, user, key, response) ==
    [pc |-> "committed", kind |-> kind, sid |-> sid, user |-> user, key |-> key,
     response |-> response]

\* the request has its response after a call of the service that ended as sink
Answered(r, sink, code, normal) ==
    [pc |-> "finished", kind |-> r.kind, sid |-> r.sid, key |-> r.key,
     sink |-> sink, code |-> code, normal |-> normal]

\* create_shipment from the spreadsheet call on: try, except Exception,
\* return response_data
CreateAfterCommit(sink, response) == response

\* update_status from the spreadsheet call on, without its try
StatusAfterCommitUnguarded(sink, usrs, ships, hist, sid, user) ==
    IF sink = "raises" THEN ServerError
    ELSE LET r == ServiceGetShipment(usrs, ships, hist, sid, user.org, user)
         IN  [code |-> r.code, body |-> r.body]

\* update_status from the spreadsheet call on: try, except Exception,
\* return get_shipment(...)
StatusAfterCommit(sink, usrs, ships, hist, sid, user) ==
    LET r == ServiceGetShipment(usrs, ships, hist, sid, user.org, user)
    IN  [code |-> r.code, body |-> r.body]

\* POST /shipments/ up to db.refresh(shipment)
CommitShipment(w, t, data) ==
    LET a == GetCurrentUser(t)
        r == ApiCreateShipment(t, data)
    IN  /\ req[w].pc = "idle"
        /\ Cardinality(DOMAIN shipments) < MaxShipments
        /\ shipments' = r.shipments
        /\ req' = IF r.code = 201
                    THEN [req EXCEPT ![w] =
                            Committed("create", r.body.shipment.id, a, NoKey,
                                      [code |-> r.code, body |-> r.body])]
                    ELSE req
        /\ UNCHANGED <<users, tokens, history, changelog>>

\* POST /shipments/{shipment_id}/events up to db.refresh(shipment); a replay
\* and an error return before the spreadsheet call
CommitStatus(w, t, sid, action, hdrKey) ==
    LET a == GetCurrentUser(t)
        key == IF hdrKey = NoKey THEN FreshKey(history, w) ELSE hdrKey
        r == CreateShipmentEvent(t, sid, action, key)
    IN  /\ req[w].pc = "idle"
        /\ Len(r.history) <= MaxHistory
        /\ shipments' = r.shipments
        /\ history' = r.history
        /\ req' = IF r.history # history
                    THEN [req EXCEPT ![w] =
                            Committed("status", sid, a, key, [code |-> 0, body |-> None])]
                    ELSE req
        /\ UNCHANGED <<users, tokens, changelog>>

\* the spreadsheet call and the rest of the handler
SyncSheets(w, sink) ==
    LET r == req[w]
        after(k) == IF r.kind = "create"
                      THEN CreateAfterCommit(k, r.response)
                      ELSE StatusAfterCommit(k, users, shipments, history, r.sid, r.user)
    IN  /\ r.pc = "committed"
        /\ req' = [req EXCEPT ![w] =
                     Answered(r, sink, after(sink).code, after("synced").code)]
        /\ UNCHANGED <<users, tokens, shipments, history, changelog>>

SheetsUsers ==
    ("sup" :> User("supplier", "T1", None)) @@
    ("ffa" :> User("ff", "T1", "FF_A")) @@
    ("drv" :> User("driver", "T1", None))

InitSheets == InitStore(SheetsUsers)

NextSheets ==
    \/ \E w \in Workers, t \in tokens : CommitShipment(w, t, Payload("FF_A", BagsOne))
    \/ \E w \in Workers, t \in tokens, sid \in ShipIds, a \in Actions, k \in HeaderKeys :
          CommitStatus(w, t, sid, a, k)
    \/ \E w \in Workers, sink \in SheetsOutcomes : SyncSheets(w, sink)
    \/ \E w \in Workers : Respond(w)

SpecSheets == InitSheets /\ [][NextSheets]_vars

----------------------------------------------------------------------------
(* SpecPatch: PUT /shipments/{shipment_id} in the steps of its statements. *)
(* update_shipment SELECTs the row once, compares the patch with the copy  *)
(* its session holds, and log_change commits after every field: the commit *)
(* flushes the UPDATE of the columns assigned so far and the INSERT of the *)
(* log row.  Sessions keep their copy after a commit                       *)
(* (expire_on_commit=False) and nothing locks the row between requests.    *)

\* rows the change log may hold in SpecPatch
MaxPatchLog == 3

\* the fields of the patch that differ from the row the session holds
Pending(row, patch) ==
    SelectSeq(UpdateFields, LAMBDA f : f \in DOMAIN patch /\ patch[f] # row[f])

Updating(sid, user, patch, row) ==
    [pc |-> "updating", sid |-> sid, user |-> user, patch |-> patch, row |-> row,
     fields |-> Pending(row, patch)]

ToLog == {w \in Workers : req[w].pc = "updating"}

RECURSIVE CountPending(_)
CountPending(ws) ==
    IF ws = {} THEN 0
    ELSE LET w == CHOOSE x \in ws : TRUE
         IN  Len(req[w].fields) + CountPending(ws \ {w})

\* authentication, role check and SELECT of the shipment
BeginUpdate(w, t, sid, patch) ==
    LET a == GetCurrentUser(t) IN
    /\ req[w].pc = "idle"
    /\ a.ok
    /\ a.role \in {"supplier", "admin"}
    /\ LookupShipment(shipments, sid, a.org)
    /\ Len(changelog) + CountPending(ToLog) + Len(Pending(shipments[sid], patch))
          <= MaxPatchLog
    /\ req' = [req EXCEPT ![w] = Updating(sid, a, patch, shipments[sid])]
    /\ UNCHANGED <<users, tokens, shipments, history, changelog>>

\* the next differing field: assignment on the session's copy, log_change
\* with the copy's old value, COMMIT of the UPDATE and of the log row
LogChange(w) ==
    /\ req[w].pc = "updating"
    /\ req[w].fields # <<>>
    /\ LET r == req[w]
           f == Head(r.fields)
       IN  /\ shipments' = [shipments EXCEPT
                              ![r.sid] = SetField(shipments[r.sid], f, r.patch[f])]
           /\ changelog' = Append(changelog,
                                  ChangeLogRow(r.sid, r.user, f, r.row[f], r.patch[f]))
           /\ req' = [req EXCEPT ![w].row = SetField(r.row, f, r.patch[f]),
                                 ![w].fields = Tail(r.fields)]
    /\ UNCHANGED <<users, tokens, history>>

\* the last commit (nothing is pending) and the response
FinishUpdate(w) ==
    /\ req[w].pc = "updating"
    /\ req[w].fields = <<>>
    /\ req' = [req EXCEPT ![w] = Idle]
    /\ UNCHANGED <<users, tokens, shipments, history, changelog>>

\* the request fails between two fields: get_db closes the session, which
\* discards what is not committed, the assignment of no logged field
FailUpdate(w) ==
    /\ req[w].pc = "updating"
    /\ req[w].fields # <<>>
    /\ req' = [req EXCEPT ![w] = Idle]
    /\ UNCHANGED <<users, tokens, shipments, history, changelog>>

PatchUsers ==
    ("adm" :> User("admin", "T1", None)) @@
    ("sup" :> User("supplier", "T1", None))

\* the shipment the store holds when SpecPatch starts
AtCreation == ServiceCreateShipment(<<>>, Payload("FF_A", BagsOne), "T1").shipments

InitPatch ==
    /\ users = PatchUsers
    /\ tokens = {TokenOf(PatchUsers, u) : u \in DOMAIN PatchUsers}
    /\ shipments = AtCreation
    /\ history = <<>>
    /\ changelog = <<>>
    /\ req = [w \in Workers |-> Idle]

NextPatch ==
    \/ \E w \in Workers, t \in tokens, sid \in ShipIds, p \in Patches :
          BeginUpdate(w, t, sid, p)
    \/ \E w \in Workers : LogChange(w)
    \/ \E w \in Workers : FinishUpdate(w)
    \/ \E w \in Workers : FailUpdate(w)

SpecPatch == InitPatch /\ [][NextPatch]_vars

----------------------------------------------------------------------------
(* SpecRace: POST /shipments/{id}/events in the steps of its statements.   *)
(* Each request has its own session (core/database.py get_db); a session   *)
(* sees what is committed when a statement runs, and nothing locks or      *)
(* versions the shipment row between its SELECT and its UPDATE.            *)

\* the shipment row a worker holds has passed the checks of update_status
Validated(sid, action, user, key) ==
    [pc |-> "validated", sid |-> sid, action |-> action, user |-> user, key |-> key]

Writing(r) == [r EXCEPT !.pc = "writing"]

InFlight == {w \in Workers : req[w].pc # "idle"}

\* authentication, role check, SELECT of the shipment, validation of the
\* transition against the status the SELECT returned
BeginTransitionWithin(cap, w, t, sid, action, hdrKey) ==
    LET a == GetCurrentUser(t)
        key == IF hdrKey = NoKey THEN FreshKey(history, w) ELSE hdrKey
    IN  /\ req[w].pc = "idle"
        /\ Len(history) + Cardinality(InFlight) < cap
        /\ req' = IF /\ a.ok
                     /\ a.role \in RolePermissions(action)
                     /\ LookupShipment(shipments, sid, a.org)
                     /\ action \in ValidTransitions(shipments[sid].current_status)
                    THEN [req EXCEPT ![w] = Validated(sid, action, a, key)]
                    ELSE req
        /\ UNCHANGED <<users, tokens, shipments, history, changelog>>

BeginTransition(w, t, sid, action, hdrKey) ==
    BeginTransitionWithin(MaxHistory, w, t, sid, action, hdrKey)

\* SELECT of the history row with the request's idempotency key
CheckIdempotency(w) ==
    /\ req[w].pc = "validated"
    /\ req' = [req EXCEPT ![w] = IF KeyUsed(history, req[w].key)
                                   THEN Idle ELSE Writing(req[w])]
    /\ UNCHANGED <<users, tokens, shipments, history, changelog>>

\* UPDATE, INSERT, COMMIT on a column idempotency_key without unique=True
CommitTransitionAnyKey(w) ==
    /\ req[w].pc = "writing"
    /\ shipments' = [shipments EXCEPT
                       ![req[w].sid].current_status = req[w].action]
    /\ history' = Append(history, HistoryRow(req[w].sid, req[w].action,
                                             req[w].user, req[w].key))
    /\ req' = [req EXCEPT ![w] = Idle]
    /\ UNCHANGED <<users, tokens, changelog>>

\* UPDATE of the shipment, INSERT of the history row, COMMIT; the unique
\* index of idempotency_key fails the INSERT of a key committed meanwhile
CommitTransition(w) ==
    /\ req[w].pc = "writing"
    /\ IF KeyUsed(history, req[w].key)
         THEN UNCHANGED <<shipments, history>>
         ELSE /\ shipments' = [shipments EXCEPT
                                 ![req[w].sid].current_status = req[w].action]
              /\ history' = Append(history, HistoryRow(req[w].sid, req[w].action,
                                                       req[w].user, req[w].key))
    /\ req' = [req EXCEPT ![w] = Idle]
    /\ UNCHANGED <<users, tokens, changelog>>

RaceUsers ==
    ("adm" :> User("admin", "T1", None)) @@
    ("sup" :> User("supplier", "T1", None)) @@
    ("ffa" :> User("ff", "T1", "FF_A"))

\* the store after one POST /shipments/ of tenant T1
InitRace ==
    /\ users = RaceUsers
    /\ tokens = {TokenOf(RaceUsers, u) : u \in DOMAIN RaceUsers}
    /\ shipments = ServiceCreateShipment(<<>>, Payload("FF_A", BagsOne), "T1").shipments
    /\ history = <<>>
    /\ changelog = <<>>
    /\ req = [w \in Workers |-> Idle]

NextRace ==
    \/ \E w \in Workers, t \in tokens, sid \in ShipIds, a \in Actions, k \in HeaderKeys :
          BeginTransition(w, t, sid, a, k)
    \/ \E w \in Workers : CheckIdempotency(w)
    \/ \E w \in Workers : CommitTransition(w)

SpecRace == InitRace /\ [][NextRace]_vars

----------------------------------------------------------------------------
(* SpecLive: the steps of SpecRace with a user of every role of the chain, *)
(* run fairly.  The event loop runs every request it has begun to its end; *)
(* of the clients it is assumed that, again and again, one whose role is   *)
(* permitted asks for the successor of the present status without an       *)
(* Idempotency-Key header.                                                 *)

\* history rows SpecLive may hold: more than its requests can write
LiveCap == 12

LiveUsers ==
    ("sup" :> User("supplier", "T1", None)) @@
    ("ffa" :> User("ff", "T1", "FF_A")) @@
    ("drv" :> User("driver", "T1", None))

InitLive ==
    /\ users = LiveUsers
    /\ tokens = {TokenOf(LiveUsers, u) : u \in DOMAIN LiveUsers}
    /\ shipments = ServiceCreateShipment(<<>>, Payload("FF_A", BagsOne), "T1").shipments
    /\ history = <<>>
    /\ changelog = <<>>
    /\ req = [w \in Workers |-> Idle]

\* a request the checks of update_status let pass
Advance(w, t, sid, a, k) ==
    /\ BeginTransitionWithin(LiveCap, w, t, sid, a, k)
    /\ req'[w].pc = "validated"

NextLive ==
    \/ \E w \in Workers, t \in tokens, sid \in ShipIds, a \in Actions, k \in HeaderKeys :
          Advance(w, t, sid, a, k)
    \/ \E w \in Workers : CheckIdempotency(w)
    \/ \E w \in Workers : CommitTransition(w)

FairLive ==
    /\ \A w \in Workers : WF_vars(CheckIdempotency(w))
    /\ \A w \in Workers : WF_vars(CommitTransition(w))
    /\ SF_vars(\E w \in Workers, t \in tokens, sid \in ShipIds, a \in Actions :
                  Advance(w, t, sid, a, NoKey))

SpecLive == InitLive /\ [][NextLive]_vars /\ FairLive

----------------------------------------------------------------------------
(* Properties of the sequential specification *)

\* the chain UNCONFIRMED -> SENT_FROM_FACTORY -> SHIPPED_FROM_FF -> DELIVERED
IsSuccessor(current, new) ==
    \/ current = Unconfirmed /\ new = "SENT_FROM_FACTORY"
    \/ current = "SENT_FROM_FACTORY" /\ new = "SHIPPED_FROM_FF"
    \/ current = "SHIPPED_FROM_FF" /\ new = "DELIVERED"

\* the role matrix of the status columns
Permitted(role, action) ==
    \/ action = "SENT_FROM_FACTORY" /\ role \in {"supplier", "admin"}
    \/ action = "SHIPPED_FROM_FF" /\ role \in {"ff", "admin"}
    \/ action = "DELIVERED" /\ role \in {"driver", "admin"}

RowsOf(hist, sid) == {i \in 1..Len(hist) : hist[i].shipment_id = sid}

RowsWithKey(hist, key) == {i \in 1..Len(hist) : hist[i].idempotency_key = key}

\* the shipment sid is one of another tenant than the token's user
Foreign(t, sid) ==
    /\ GetCurrentUser(t).ok
    /\ sid \in DOMAIN shipments
    /\ shipments[sid].org # GetCurrentUser(t).org

\* C2: a GET of an id that exists only in another tenant answers exactly as
\* a GET of an id that exists in no tenant (same status code, same body).
C2_ForeignIdAnswersAsAbsentId ==
    \A t \in tokens, sa \in ShipIds, sn \in ShipIds :
        (Foreign(t, sa) /\ sn \notin DOMAIN shipments)
            => ApiGetShipment(t, sa) = ApiGetShipment(t, sn)

C2_Witness ==
    \E t \in tokens, sa \in ShipIds, sn \in ShipIds :
        /\ Foreign(t, sa)
        /\ sn \notin DOMAIN shipments
        /\ ApiGetShipment(t, sa).code = 404
        /\ history # <<>>

\* the row h is the accepted first call whose retry is asked about: it
\* carries a client key, it is the latest row and its actor still sees the
\* shipment
FirstCall(i) ==
    /\ i = Len(history)
    /\ history[i].idempotency_key \in ClientKeys
    /\ TokenOf(users, history[i].changed_by) \in tokens
    /\ ServiceGetShipment(users, shipments, history, history[i].shipment_id,
                          history[i].organization_id,
                          GetCurrentUser(TokenOf(users, history[i].changed_by))).code = 200

\* C3: repeating an accepted transition request with the same idempotency
\* token returns without error the shipment state the first call returned,
\* and the token keeps exactly one history row.
C3_RetryWithSameTokenSucceeds ==
    \A i \in 1..Len(history) :
        FirstCall(i) =>
            LET h == history[i]
                r == CreateShipmentEvent(TokenOf(users, h.changed_by), h.shipment_id,
                                         h.status, h.idempotency_key)
            IN  /\ r.code = 200
                /\ r.body = ShipmentView(shipments, history, h.shipment_id)
                /\ Cardinality(RowsWithKey(r.history, h.idempotency_key)) = 1

\* C4: a request of an authorized role, on a shipment of the actor's tenant,
\* with an unused token, for a status that is not the successor of the
\* current one, fails with 400 InvalidTransition naming both statuses and
\* leaves the shipment and the history as they are.
C4_NonSuccessorIsInvalidTransition ==
    \A t \in tokens, sid \in DOMAIN shipments, a \in Actions, k \in HeaderKeys :
        LET u == GetCurrentUser(t)
            r == CreateShipmentEvent(t, sid, a, k)
        IN  ( /\ u.ok
              /\ u.role \in {"admin", "supplier", "ff", "driver"}
              /\ Permitted(u.role, a)
              /\ shipments[sid].org = u.org
              /\ ~KeyUsed(history, k)
              /\ ~IsSuccessor(shipments[sid].current_status, a) )
            => /\ r.code = 400
               /\ r.body = [kind |-> "InvalidTransition",
                            from |-> shipments[sid].current_status, to |-> a]
               /\ r.shipments = shipments
               /\ r.history = history

C4_Witness ==
    \E t \in tokens, sid \in DOMAIN shipments, a \in Actions :
        /\ shipments[sid].current_status = "DELIVERED"
        /\ GetCurrentUser(t).ok
        /\ Permitted(GetCurrentUser(t).role, a)
        /\ shipments[sid].org = GetCurrentUser(t).org
        /\ CreateShipmentEvent(t, sid, a, NoKey).code = 400

SentBySupplier(u, sid) ==
    /\ u \in DOMAIN users
    /\ users[u].role = "supplier"
    /\ TokenOf(users, u) \in tokens
    /\ sid \in DOMAIN shipments
    /\ shipments[sid].org = users[u].org
    /\ shipments[sid].current_status = "SENT_FROM_FACTORY"
    /\ \E i \in 1..Len(history) :
          /\ RowsOf(history, sid) = {i}
          /\ history[i].changed_by = u
          /\ history[i].status = "SENT_FROM_FACTORY"

\* a fresh shipment of the tenant of supplier u
FreshFor(u, sid) ==
    /\ u \in DOMAIN users
    /\ users[u].role = "supplier"
    /\ TokenOf(users, u) \in tokens
    /\ sid \in DOMAIN shipments
    /\ shipments[sid].org = users[u].org
    /\ shipments[sid].current_status = Unconfirmed
    /\ RowsOf(history, sid) = {}

\* C9 as stated: after a supplier moved a fresh shipment to
\* SENT_FROM_FACTORY, the same supplier's request for SHIPPED_FROM_FF fails
\* with InvalidTransition and leaves the shipment at SENT_FROM_FACTORY with
\* one history row.
C9_SupplierSecondStepInvalidTransition ==
    \A u \in DOMAIN users, sid \in ShipIds, k \in HeaderKeys :
        SentBySupplier(u, sid) =>
            LET r == CreateShipmentEvent(TokenOf(users, u), sid, "SHIPPED_FROM_FF", k)
            IN  /\ r.code = 400
                /\ r.body.kind = "InvalidTransition"
                /\ r.shipments[sid].current_status = "SENT_FROM_FACTORY"
                /\ Cardinality(RowsOf(r.history, sid)) = 1

\* C9 amended: the supplier's first step on a fresh shipment succeeds and
\* leaves SENT_FROM_FACTORY with one history row; the same supplier's
\* request for SHIPPED_FROM_FF is then answered 403 Forbidden (the role
\* check), and leaves the shipment at SENT_FROM_FACTORY with that one row.
C9_SupplierSecondStepForbidden ==
    \A u \in DOMAIN users, sid \in ShipIds, k \in HeaderKeys :
        /\ (FreshFor(u, sid) /\ ~KeyUsed(history, k)) =>
              LET r == CreateShipmentEvent(TokenOf(users, u), sid, "SENT_FROM_FACTORY", k)
              IN  /\ r.code = 200
                  /\ r.shipments[sid].current_status = "SENT_FROM_FACTORY"
                  /\ Cardinality(RowsOf(r.history, sid)) = 1
        /\ SentBySupplier(u, sid) =>
              LET r == CreateShipmentEvent(TokenOf(users, u), sid, "SHIPPED_FROM_FF", k)
              IN  /\ r.code = 403
                  /\ r.body = [kind |-> "Forbidden", role |-> "supplier",
                               action |-> "SHIPPED_FROM_FF"]
                  /\ r.shipments = shipments
                  /\ r.history = history
                  /\ shipments[sid].current_status = "SENT_FROM_FACTORY"
                  /\ Cardinality(RowsOf(history, sid)) = 1

C9_Witness ==
    \E u \in DOMAIN users, sid \in ShipIds :
        /\ SentBySupplier(u, sid)
        /\ CreateShipmentEvent(TokenOf(users, u), sid, "SHIPPED_FROM_FF", NoKey).code = 403

\* C10: an ff user retrieves only shipments of the own tenant whose
\* fulfillment is the name of the user's center (none without a center);
\* for every other shipment the GET answers the NotFound of an absent id,
\* and a listing leaves the shipment out.
C10_FFSeesOnlyOwnCenter ==
    \A t \in tokens, sid \in DOMAIN shipments :
        LET u == GetCurrentUser(t)
            visible == /\ shipments[sid].org = u.org
                       /\ u.ff # None
                       /\ shipments[sid].fulfillment = u.ff
            l == ApiListShipments(t, None, None, DefaultLimit, 0)
        IN  (u.ok /\ u.role = "ff" /\ ~visible) =>
              /\ ApiGetShipment(t, sid) = NotFound
              /\ \A n \in 1..Len(l.body.items) : l.body.items[n].id # sid

----------------------------------------------------------------------------
(* Properties of the specification with changing membership *)

\* the rows of a log that belong to shipments of tenant T
RECURSIVE RowsOfTenant(_, _, _)
RowsOfTenant(log, ships, T) ==
    IF log = <<>> THEN <<>>
    ELSE LET h == Head(log)
             rest == RowsOfTenant(Tail(log), ships, T)
         IN  IF h.shipment_id \in DOMAIN ships /\ ships[h.shipment_id].org = T
               THEN <<h>> \o rest
               ELSE rest

ShipmentsOfTenant(ships, T) == {i \in DOMAIN ships : ships[i].org = T}

\* the shipments of tenant T are in ships2 as they are in the store
TenantUntouched(ships2, T) ==
    \A i \in ShipmentsOfTenant(shipments, T) :
        i \in DOMAIN ships2 /\ ships2[i] = shipments[i]

\* user u is outside tenant T and no admin
Outsider(u, T) ==
    /\ u \in DOMAIN users
    /\ users[u].role # "admin"
    /\ users[u].org # T

\* the answer r carries no shipment
NoData(r) == r.code \in {401, 403, 404} /\ r.body.kind # "Shipment"

\* C1: a get, list, update or transition request of a user who is no admin
\* and whose tenant is not T (the null tenant included), with any token the
\* user holds, returns no data of a shipment of T and leaves the fields,
\* status, status history and change log of the shipments of T as they are.
C1_TenantIsolation ==
    \A T \in Orgs, t \in tokens :
        Outsider(t.uid, T) =>
            /\ \A sid \in ShipmentsOfTenant(shipments, T) :
                  NoData(ApiGetShipment(t, sid))
            /\ LET l == ApiListShipments(t, None, None, DefaultLimit, 0)
               IN  l.code = 200 =>
                      \A n \in 1..Len(l.body.items) :
                          l.body.items[n].id \notin ShipmentsOfTenant(shipments, T)
            /\ LET a == GetCurrentUser(t)
                   l == ServiceListShipments(users, shipments, a.org, a, None, None,
                                             DefaultLimit, 0)
               IN  a.ok => \A n \in 1..Len(l) :
                              l[n].id \notin ShipmentsOfTenant(shipments, T)
            /\ \A sid \in ShipIds, p \in Patches :
                  LET r == ApiUpdateShipment(t, sid, p)
                  IN  /\ sid \in ShipmentsOfTenant(shipments, T) => NoData(r)
                      /\ TenantUntouched(r.shipments, T)
                      /\ RowsOfTenant(r.changelog, shipments, T)
                            = RowsOfTenant(changelog, shipments, T)
            /\ \A sid \in ShipIds, a \in Actions, k \in HeaderKeys :
                  LET r == CreateShipmentEvent(t, sid, a, k)
                  IN  /\ sid \in ShipmentsOfTenant(shipments, T) => NoData(r)
                      /\ TenantUntouched(r.shipments, T)
                      /\ RowsOfTenant(r.history, shipments, T)
                            = RowsOfTenant(history, shipments, T)

\* a supplier who left T1 for T2 holds a token of each and T1 has a
\* shipment the supplier moved and edited while a member
C1_Witness ==
    \E sid \in ShipmentsOfTenant(shipments, "T1") :
        /\ Outsider("sup", "T1")
        /\ users["sup"].org = "T2"
        /\ {[uid |-> "sup", org |-> "T1"], [uid |-> "sup", org |-> "T2"]} \subseteq tokens
        /\ shipments[sid].current_status = "SENT_FROM_FACTORY"
        /\ changelog # <<>>
        /\ ApiGetShipment([uid |-> "sup", org |-> "T2"], sid).code = 404
        /\ CreateShipmentEvent([uid |-> "sup", org |-> "T2"], sid, "SHIPPED_FROM_FF",
                               NoKey).code = 403
        /\ ApiUpdateShipment([uid |-> "sup", org |-> "T2"], sid,
                             [warehouse |-> "W1"]).code = 404

\* token t was issued while its user was in t.org and the user has left
Stale(t) ==
    /\ t \in tokens
    /\ t.uid \in DOMAIN users
    /\ users[t.uid].org # t.org

Unauthorized401(r) ==
    /\ r.code = 401
    /\ r.body = [kind |-> "Unauthorized", detail |-> "Organization mismatch in token"]

\* C7: while the tenant of a user is not the tenant of a token the user was
\* issued, every request with that token is answered 401 (organization
\* mismatch), returns no shipment and changes nothing.
C7_StaleTokenRejected ==
    \A t \in tokens :
        Stale(t) =>
            /\ \A sid \in ShipIds : Unauthorized401(ApiGetShipment(t, sid))
            /\ Unauthorized401(ApiListShipments(t, None, None, DefaultLimit, 0))
            /\ LET r == ApiCreateShipment(t, Payload("FF_A", BagsOne))
               IN  Unauthorized401(r) /\ r.shipments = shipments
            /\ \A sid \in ShipIds, p \in Patches :
                  LET r == ApiUpdateShipment(t, sid, p)
                  IN  /\ Unauthorized401(r)
                      /\ r.shipments = shipments
                      /\ r.changelog = changelog
            /\ \A sid \in ShipIds, a \in Actions, k \in HeaderKeys :
                  LET r == CreateShipmentEvent(t, sid, a, k)
                  IN  /\ Unauthorized401(r)
                      /\ r.shipments = shipments
                      /\ r.history = history
            /\ \A u \in DOMAIN users :
                  /\ ApiDeleteUser(t, u) = UserOutcome(401, users, history)
                  /\ ApiAddExistingUser(t, u) = UserOutcome(401, users, history)

\* the supplier was removed from T1, whose shipment the supplier had sent
C7_Witness ==
    \E sid \in ShipmentsOfTenant(shipments, "T1") :
        /\ Stale([uid |-> "sup", org |-> "T1"])
        /\ users["sup"].org = None
        /\ \E i \in 1..Len(history) :
              history[i].shipment_id = sid /\ history[i].changed_by = "sup"
        /\ ApiGetShipment([uid |-> "sup", org |-> "T1"], sid).code = 401

----------------------------------------------------------------------------
(* Properties of concurrent status requests *)

\* C5: every change of a shipment's current_status moves it to the
\* immediate successor in UNCONFIRMED -> SENT_FROM_FACTORY ->
\* SHIPPED_FROM_FF -> DELIVERED: no skip, no step back, no change after
\* DELIVERED.
C5_StatusOnlyAdvances ==
    [][\A sid \in DOMAIN shipments :
          (sid \in DOMAIN shipments'
             /\ shipments'[sid].current_status # shipments[sid].current_status)
            => IsSuccessor(shipments[sid].current_status,
                           shipments'[sid].current_status)]_vars

\* C6: of concurrent requests with different idempotency keys for the same
\* step of the same shipment at most one is accepted: the history never
\* holds two rows for the same status of the same shipment.
C6_OneRowPerStep ==
    \A i, j \in 1..Len(history) :
        (history[i].shipment_id = history[j].shipment_id
           /\ history[i].status = history[j].status)
          => i = j

----------------------------------------------------------------------------
(* Properties of reading and listing by role *)

\* the ids of a listing
ListedIds(l) == {l[n].id : n \in 1..Len(l)}

\* the filter values a listing request carries
StatusFilters == {None, Unconfirmed, "SENT_FROM_FACTORY"}

SupplierFilters == {None, "S1"}

\* the shipments a listing with the filters is to show, whatever the tenant
Matching(status, supplier) ==
    {i \in DOMAIN shipments :
        /\ status # None => shipments[i].current_status = status
        /\ supplier # None => shipments[i].supplier = supplier}

\* C11: an admin retrieves the shipments of every tenant, not only those
\* of the tenant on the admin's user row (the listing half of the claim is
\* the listing of C12, with every tenant in place of one).
C11_AdminReadsEveryTenant ==
    \A t \in tokens, sid \in DOMAIN shipments :
        LET a == GetCurrentUser(t) IN
        (a.ok /\ a.role = "admin") =>
            ApiGetShipment(t, sid)
                = [code |-> 200, body |-> ShipmentView(shipments, history, sid)]

\* C12: a listing by an owner, admin or supplier of tenant T shows, under
\* the filters and within the limit, exactly the shipments of T; it is not
\* empty when T holds a matching shipment.
C12_ListShowsTenantShipments ==
    \A t \in tokens, st \in StatusFilters, su \in SupplierFilters :
        LET a == GetCurrentUser(t)
            l == ApiListShipments(t, st, su, DefaultLimit, 0)
        IN  (a.ok /\ a.role \in {"owner", "admin", "supplier"}) =>
              /\ l.code = 200
              /\ ListedIds(l.body.items)
                    = ShipmentsOfTenant(shipments, a.org) \cap Matching(st, su)

\* C13: a listing by a driver is empty, whatever the filters, and a GET by
\* a driver of a shipment of the driver's tenant returns that shipment.
C13_DriverListsNothingGetsById ==
    \A t \in tokens :
        LET a == GetCurrentUser(t) IN
        (a.ok /\ a.role = "driver") =>
          /\ \A st \in StatusFilters, su \in SupplierFilters :
                /\ ApiListShipments(t, st, su, DefaultLimit, 0)
                      = [code |-> 200, body |-> [kind |-> "List", items |-> <<>>]]
                /\ ServiceListShipments(users, shipments, a.org, a, st, su,
                                        DefaultLimit, 0) = <<>>
          /\ \A sid \in ShipmentsOfTenant(shipments, a.org) :
                ApiGetShipment(t, sid)
                    = [code |-> 200, body |-> ShipmentView(shipments, history, sid)]

C13_Witness ==
    \E t \in tokens, sid \in DOMAIN shipments :
        /\ GetCurrentUser(t).ok
        /\ GetCurrentUser(t).role = "driver"
        /\ shipments[sid].org = GetCurrentUser(t).org
        /\ shipments[sid].current_status = "DELIVERED"
        /\ ApiGetShipment(t, sid).code = 200
        /\ ApiListShipments(t, None, None, DefaultLimit, 0).body.items = <<>>

----------------------------------------------------------------------------
(* Properties of creating and editing *)

C15_FFAndDriverCannotCreate ==
    \A t \in tokens, b \in BagChoices :
        LET a == GetCurrentUser(t)
            r == ApiCreateShipment(t, Payload("FF_A", b))
        IN  (a.ok /\ a.role \in {"ff", "driver"}) =>
              /\ r.code \in {401, 403}
              /\ r.shipments = shipments

\* C16: created one after another, the k-th shipment of a tenant gets the
\* id SHIP-T-k with k zero-padded: the new counter is one more than the
\* greatest counter the tenant holds, however many shipments it holds.
C16_KthCreationGetsCounterK ==
    \A t \in tokens :
        LET a == GetCurrentUser(t)
            mine == ShipmentsOfTenant(shipments, a.org)
            r == ApiCreateShipment(t, Payload("FF_A", BagsOne))
        IN  a.ok =>
              /\ r.code = 201
              /\ r.body.shipment.id = ShipmentId(a.org, Cardinality(mine) + 1)
              /\ \A i \in mine :
                    ParseSeq(i[2]) < ParseSeq(r.body.shipment.id[2])

----------------------------------------------------------------------------
(* Properties of concurrent creation                                       *)

\* the requests that were answered 201 and not yet handed back
Created == {w \in Workers : req[w].pc = "finished" /\ req[w].code = 201}

\* the request of worker w lost the id it computed to another request
LostId(w) ==
    /\ req[w].pc = "finished"
    /\ req[w].code # 201
    /\ req[w].sid \in DOMAIN shipments

\* C17: under every interleaving of creations, two creations answered 201
\* never hold the same id, each holds the row it sent, and no step changes
\* or removes a shipment that is stored.
C17_IdsUniqueNothingOverwritten ==
    /\ [](\A v, w \in Created :
            /\ req[w].sid \in DOMAIN shipments
            /\ shipments[req[w].sid].fulfillment = req[w].data.fulfillment
            /\ (v # w => req[v].sid # req[w].sid))
    /\ [][\A sid \in DOMAIN shipments :
            /\ sid \in DOMAIN shipments'
            /\ shipments'[sid] = shipments[sid]]_vars

\* two requests of one tenant computed the same id; one is stored, the
\* other was refused by the primary key
C17_Witness ==
    \E v, w \in Workers :
        /\ v # w
        /\ req[v].pc = "finished" /\ req[v].code = 201
        /\ LostId(w)
        /\ req[w].sid = req[v].sid
        /\ req[w].data # req[v].data

\* C18: a creation whose id was taken by a concurrent creation does not end
\* in a failure: it is answered 201 with an id of its own, or with a
\* conflict the caller is told to retry (409 or 503).
C18_CollisionIsRetried ==
    \A w \in Workers :
        req[w].pc = "finished" => req[w].code \in {201, 409, 503}

----------------------------------------------------------------------------
(* Properties of the totals                                                *)

\* every size quantity of a bag collection: <<bag, item, size label>>
Quantities(bags) ==
    {<<b, i, l>> \in (1..Len(bags)) \X (1..2) \X {"S", "M", "L"} :
        /\ i <= Len(bags[b].items)
        /\ l \in DOMAIN bags[b].items[i].sizes}

RECURSIVE SumOver(_, _)
SumOver(bags, qs) ==
    IF qs = {} THEN 0
    ELSE LET q == CHOOSE x \in qs : TRUE
         IN  bags[q[1]].items[q[2]].sizes[q[3]] + SumOver(bags, qs \ {q})

\* C19: every stored shipment has total_bags equal to the number of its bags
\* and total_pieces equal to the sum of all size quantities of all items of
\* all its bags, after creation and after every update.
C19_TotalsMatchBags ==
    \A sid \in DOMAIN shipments :
        LET row == shipments[sid] IN
        /\ row.total_bags = Len(row.bags_data)
        /\ row.total_pieces = SumOver(row.bags_data, Quantities(row.bags_data))

\* an update has replaced the bags of a shipment by bags of another count
\* and another sum
C19_Witness ==
    \E n \in 1..Len(changelog) :
        LET c == changelog[n] IN
        /\ c.change_type = "bag_contents"
        /\ c.shipment_id \in DOMAIN shipments
        /\ Len(c.old_value) # Len(c.new_value)
        /\ TotalPieces(c.old_value) # TotalPieces(c.new_value)
        /\ shipments[c.shipment_id].bags_data = c.new_value

----------------------------------------------------------------------------
(* Properties of the logs                                                  *)

\* every row of log a is a row of log b, at its place
KeepsRows(a, b) ==
    /\ Len(a) <= Len(b)
    /\ \A i \in 1..Len(a) : b[i] = a[i]

\* C20: no step changes or removes a row of the status history or of the
\* change log; each log only grows (no operation deletes a shipment).
C20_LogsOnlyGrow ==
    [][KeepsRows(history, history') /\ KeepsRows(changelog, changelog')]_vars

----------------------------------------------------------------------------
(* Properties of membership                                                *)

\* the tokens of the owners the store accepts
OwnerTokens == {t \in tokens : GetCurrentUser(t).ok /\ GetCurrentUser(t).role = "owner"}

\* C21: a user an owner detaches stays in the store with a null tenant; an
\* owner's add-existing request succeeds, setting the user's tenant to the
\* owner's, if and only if the user's tenant is null at that moment, and
\* changes nothing otherwise.
C21_AttachIffDetached ==
    \A t \in OwnerTokens, target \in DOMAIN users :
        LET a == GetCurrentUser(t)
            del == ApiDeleteUser(t, target)
            add == ApiAddExistingUser(t, target)
        IN  /\ del.code = 204 =>
                 /\ target \in DOMAIN del.users
                 /\ del.users[target].org = None
            /\ add.code = 200 <=> users[target].org = None
            /\ IF users[target].org = None
                 THEN add.users = [users EXCEPT ![target].org = a.org]
                 ELSE add.users = users

\* the users of the store that belong to no tenant
Detached == {u \in DOMAIN users : users[u].org = None}

\* the tokens user u may present: those issued to u, and one naming no tenant
TokensOf(u) == {t \in tokens : t.uid = u} \cup {[uid |-> u, org |-> None]}

\* the response carries an error and no data
Rejected(r) == r.code \in {401, 403, 404}

\* C22: a user whose tenant is null gets no token at login, and every
\* get, list, create, update and transition request such a user sends, with
\* any token the user holds, is rejected and changes nothing.
C22_DetachedUserDoesNothing ==
    \A u \in Detached :
        /\ AuthenticateUser(users, u).issued = {}
        /\ \A t \in TokensOf(u) :
              /\ \A sid \in ShipIds : Rejected(ApiGetShipment(t, sid))
              /\ \A st \in StatusFilters, su \in SupplierFilters :
                    Rejected(ApiListShipments(t, st, su, DefaultLimit, 0))
              /\ \A ff \in FFNames :
                    LET r == ApiCreateShipment(t, Payload(ff, BagsOne))
                    IN  Rejected(r) /\ r.shipments = shipments
              /\ \A sid \in ShipIds, p \in Patches :
                    LET r == ApiUpdateShipment(t, sid, p)
                    IN  /\ Rejected(r)
                        /\ r.shipments = shipments
                        /\ r.changelog = changelog
              /\ \A sid \in ShipIds, a \in Actions, k \in HeaderKeys :
                    LET r == CreateShipmentEvent(t, sid, a, k)
                    IN  /\ Rejected(r)
                        /\ r.shipments = shipments
                        /\ r.history = history

\* a detached user holds a token of the tenant left, which has a shipment
C22_Witness ==
    \E u \in Detached, t \in tokens, sid \in DOMAIN shipments :
        /\ t.uid = u
        /\ shipments[sid].org = t.org

----------------------------------------------------------------------------
(* Properties of what a response tells                                     *)

\* bodies of PUT /shipments/{shipment_id} of every kind
AnyPatch == Patches \cup EditPatches

\* C23: an update or a transition of an id that exists only in another
\* tenant is answered exactly as one of an id that exists in no tenant, for
\* every role, patch, action and key, and neither changes the store.
C23_ForeignIdWritesAsAbsentId ==
    \A t \in tokens, sa \in ShipIds, sn \in ShipIds :
        (Foreign(t, sa) /\ sn \notin DOMAIN shipments) =>
            /\ \A p \in AnyPatch :
                  /\ ApiUpdateShipment(t, sa, p) = ApiUpdateShipment(t, sn, p)
                  /\ ApiUpdateShipment(t, sa, p).shipments = shipments
                  /\ ApiUpdateShipment(t, sa, p).changelog = changelog
            /\ \A a \in Actions, k \in HeaderKeys :
                  /\ CreateShipmentEvent(t, sa, a, k) = CreateShipmentEvent(t, sn, a, k)
                  /\ CreateShipmentEvent(t, sa, a, k).shipments = shipments
                  /\ CreateShipmentEvent(t, sa, a, k).history = history

\* a supplier of one tenant passes the role checks of both routes and asks
\* for a shipment of another tenant
C23_Witness ==
    \E t \in tokens, sa \in ShipIds, sn \in ShipIds :
        /\ Foreign(t, sa)
        /\ sn \notin DOMAIN shipments
        /\ GetCurrentUser(t).role = "supplier"
        /\ shipments[sa].current_status = Unconfirmed
        /\ CreateShipmentEvent(t, sa, "SENT_FROM_FACTORY", NoKey).code = 404
        /\ ApiUpdateShipment(t, sa, [warehouse |-> "W2"]).code = 404

\* a token the server did not sign
ForgedToken == [uid |-> "sup", org |-> "T1", forged |-> TRUE]

\* the tokens a caller may present that get_current_user refuses
RefusedTokens == {t \in tokens \cup {ForgedToken} : ~GetCurrentUser(t).ok}

\* C24: every authentication failure is answered alike: two requests that
\* differ only in the token, both refused, get the same response.
C24_AuthFailuresAlike ==
    \A t1, t2 \in RefusedTokens, sid \in ShipIds :
        ApiGetShipment(t1, sid) = ApiGetShipment(t2, sid)

----------------------------------------------------------------------------
(* Properties of the spreadsheet service                                   *)

\* what the request of worker w committed is in the store
StillCommitted(w) ==
    /\ req[w].sid \in DOMAIN shipments
    /\ req[w].kind = "status" =>
          \E i \in 1..Len(history) :
              /\ history[i].idempotency_key = req[w].key
              /\ history[i].shipment_id = req[w].sid

\* C25: the spreadsheet service is called after the commit only, and when
\* it raises the request is answered as when it returns, while the
\* shipment, the status and the history row it committed stay in the store.
C25_SheetsFailureChangesNothing ==
    \A w \in Workers :
        /\ req[w].pc = "committed" => StillCommitted(w)
        /\ req[w].pc = "finished" =>
              /\ StillCommitted(w)
              /\ req[w].code = req[w].normal
              /\ req[w].code \in {200, 201}

\* the spreadsheet service raised after a creation and after a transition
C25_Witness ==
    \E v, w \in Workers :
        /\ req[v].pc = "finished" /\ req[v].kind = "create" /\ req[v].sink = "raises"
        /\ req[w].pc = "finished" /\ req[w].kind = "status" /\ req[w].sink = "raises"
        /\ req[w].code = 200

----------------------------------------------------------------------------
(* Properties of validation                                                *)

\* C26: a creation or an update whose bags hold a negative quantity or two
\* bags with one bag_id is rejected with an error, and neither a shipment
\* nor a change-log row results from it.
C26_BadBagsRejected ==
    \A t \in tokens, b \in {BagsNegative, BagsDuplicate} :
        /\ LET r == ApiCreateShipment(t, Payload("FF_A", b))
           IN  r.code \in {400, 401, 403, 422} /\ r.shipments = shipments
        /\ \A sid \in ShipIds :
              LET r == ApiUpdateShipment(t, sid, [bags_data |-> b])
              IN  /\ r.code \in {400, 401, 403, 404, 422}
                  /\ r.shipments = shipments
                  /\ r.changelog = changelog

----------------------------------------------------------------------------
(* Properties of status and history together                               *)

\* the places of the history rows of shipment sid
EntriesOf(sid) == RowsOf(history, sid)

\* the row of shipment sid inserted last
LastEntry(sid) == history[CHOOSE i \in EntriesOf(sid) : \A j \in EntriesOf(sid) : j <= i]

\* C27: a shipment without history rows has the status of a new shipment,
\* and a shipment with rows has the status of the row inserted last, which
\* names a user and the tenant of the shipment.
C27_StatusIsLastEntry ==
    \A sid \in DOMAIN shipments :
        IF EntriesOf(sid) = {}
          THEN shipments[sid].current_status = Unconfirmed
          ELSE /\ shipments[sid].current_status = LastEntry(sid).status
               /\ LastEntry(sid).organization_id = shipments[sid].org
               /\ LastEntry(sid).changed_by # None

\* C28: no two history rows carry the same idempotency key, also when two
\* requests with one unused key have both passed the lookup; a step that
\* adds no history row leaves every shipment as it was.
C28_KeyOnce ==
    /\ [](\A i, j \in 1..Len(history) :
            history[i].idempotency_key = history[j].idempotency_key => i = j)
    /\ [][Len(history') = Len(history) => shipments' = shipments]_vars

\* a request passed the lookup with a key that another request has
\* committed since
C28_Witness ==
    \E w \in Workers :
        /\ req[w].pc = "writing"
        /\ req[w].key \in ClientKeys
        /\ KeyUsed(history, req[w].key)

----------------------------------------------------------------------------
(* Properties of requests without the Idempotency-Key header               *)

\* the history row i was written by a request without the header, and its
\* actor still holds a token the store accepts
Keyless(i) ==
    /\ history[i].idempotency_key.src = "uuid"
    /\ history[i].changed_by \in DOMAIN users
    /\ GetCurrentUser(TokenOf(users, history[i].changed_by)).ok

\* C29: the key made for a request without the header is the key of no
\* history row, so the request is never answered as a replay: a permitted
\* next step is accepted with one new row, and the repetition of an accepted
\* request, again without the header, fails with InvalidTransition and adds
\* no row.
C29_KeylessRequestIsFresh ==
    /\ ~KeyUsed(history, FreshKey(history, "-"))
    /\ \A t \in tokens, sid \in DOMAIN shipments, a \in Actions :
          LET u == GetCurrentUser(t)
              r == CreateShipmentEvent(t, sid, a, NoKey)
          IN  ( /\ u.ok
                /\ Permitted(u.role, a)
                /\ shipments[sid].org = u.org
                /\ IsSuccessor(shipments[sid].current_status, a) )
              => /\ Len(r.history) = Len(history) + 1
                 /\ r.shipments[sid].current_status = a
    /\ \A i \in 1..Len(history) :
          Keyless(i) =>
            LET h == history[i]
                r == CreateShipmentEvent(TokenOf(users, h.changed_by), h.shipment_id,
                                         h.status, NoKey)
            IN  /\ r.code = 400
                /\ r.body.kind = "InvalidTransition"
                /\ r.history = history
                /\ r.shipments = shipments

\* requests without the header were accepted for two steps of a shipment
C29_Witness ==
    \E i, j \in 1..Len(history) :
        /\ i < j
        /\ Keyless(i) /\ Keyless(j)
        /\ history[i].shipment_id = history[j].shipment_id

----------------------------------------------------------------------------
(* Properties of the change log                                            *)

\* the fields of patch p whose value is not the one shipment sid holds
Changed(sid, p) == {f \in DOMAIN p : p[f] # shipments[sid][f]}

\* the places of the rows log holds beyond the change log of the store
Added(log) == (Len(changelog) + 1)..Len(log)

\* C30: an update appends one change-log row for each field of the patch
\* whose value differs from the stored one and none for any other field;
\* the row names the field, the shipment, the actor and the tenant, with the
\* stored value as old_value and the patched value as new_value, and the
\* rows the log held stay as they were.
C30_OneRowPerChangedField ==
    \A t \in tokens, sid \in DOMAIN shipments, p \in AnyPatch :
        LET u == GetCurrentUser(t)
            r == ApiUpdateShipment(t, sid, p)
        IN  (u.ok /\ u.role \in {"supplier", "admin"} /\ shipments[sid].org = u.org) =>
              /\ Len(r.changelog) = Len(changelog) + Cardinality(Changed(sid, p))
              /\ \A i \in 1..Len(changelog) : r.changelog[i] = changelog[i]
              /\ \A f \in Changed(sid, p) :
                    \E n \in Added(r.changelog) :
                        /\ r.changelog[n] =
                             [shipment_id |-> sid, changed_by |-> u.id,
                              change_type |-> ChangeType(f),
                              old_value |-> shipments[sid][f], new_value |-> p[f],
                              organization_id |-> u.org]
                        /\ \A m \in Added(r.changelog) :
                              r.changelog[m].change_type = ChangeType(f) => m = n
                        /\ r.shipments[sid][f] = p[f]

\* a supplier has changed the warehouse of a shipment, and a patch with a
\* changed and an unchanged field is at hand
C30_Witness ==
    \E n \in 1..Len(changelog) :
        LET c == changelog[n] IN
        /\ c.change_type = "warehouse"
        /\ c.old_value = "W1" /\ c.new_value = "W2"
        /\ c.shipment_id \in DOMAIN shipments
        /\ shipments[c.shipment_id].warehouse = "W2"
        /\ Changed(c.shipment_id, [warehouse |-> "W2", bags_data |-> BagsTwo])
              = {"bags_data"}

\* C31: an update whose patch names no field with a value other than the
\* stored one writes nothing: every shipment and the change log stay as
\* they are.
C31_EqualPatchWritesNothing ==
    \A t \in tokens, sid \in DOMAIN shipments, p \in AnyPatch :
        Changed(sid, p) = {} =>
            LET r == ApiUpdateShipment(t, sid, p)
            IN  /\ r.shipments = shipments
                /\ r.changelog = changelog

\* a supplier may repeat the patch that an update has applied
C31_Witness ==
    \E t \in tokens, sid \in DOMAIN shipments, p \in AnyPatch :
        /\ Changed(sid, p) = {}
        /\ \E n \in 1..Len(changelog) : changelog[n].shipment_id = sid
        /\ GetCurrentUser(t).ok
        /\ GetCurrentUser(t).role = "supplier"
        /\ ApiUpdateShipment(t, sid, p).code = 200

----------------------------------------------------------------------------
(* Properties of what a transition request answers                         *)

\* C32: a transition request that is answered with an error (400, 403 or
\* 404) has changed neither a shipment nor the status history.
C32_ErrorMeansNoChange ==
    \A t \in tokens, sid \in ShipIds, a \in Actions, k \in HeaderKeys :
        LET r == CreateShipmentEvent(t, sid, a, k)
        IN  r.code \in {400, 403, 404} =>
              /\ r.shipments = shipments
              /\ r.history = history

\* C33: a transition request for status a of shipment sid that is
\* answered 200 leaves the shipment at a, in the store and in the view
\* returned, with a history row of sid for a, whatever key it carries.
C33_SuccessMeansMoved ==
    \A t \in tokens, sid \in DOMAIN shipments, a \in Actions, k \in HeaderKeys :
        LET r == CreateShipmentEvent(t, sid, a, k)
        IN  r.code = 200 =>
              /\ r.shipments[sid].current_status = a
              /\ r.body.shipment.current_status = a
              /\ \E i \in RowsOf(r.history, sid) : r.history[i].status = a

----------------------------------------------------------------------------
(* Properties of SpecPatch *)

\* the change log rows of one field of one shipment, oldest first
FieldRows(sid, f) ==
    SelectSeq(changelog, LAMBDA e : e.shipment_id = sid /\ e.change_type = ChangeType(f))

\* C34: for every shipment and field, the change log rows of the field
\* form a chain: the first row's old_value is the value given at creation,
\* every later row's old_value is the new_value of the row before it, and
\* the stored value of the field is the new_value of the last row.
C34_ChangeLogIsAChain ==
    \A sid \in DOMAIN shipments :
        \A n \in 1..Len(UpdateFields) :
            LET f == UpdateFields[n]
                rows == FieldRows(sid, f)
            IN  rows # <<>> =>
                  /\ rows[1].old_value = AtCreation[sid][f]
                  /\ \A i \in 2..Len(rows) : rows[i].old_value = rows[i - 1].new_value
                  /\ shipments[sid][f] = rows[Len(rows)].new_value

----------------------------------------------------------------------------
(* Properties of what an owner's user-management requests do               *)

\* the outcomes of every user-management request the owner of token t can send
OwnerOutcomes(t) ==
    {ApiDeleteUser(t, u) : u \in DOMAIN users}
    \cup {ApiAddExistingUser(t, u) : u \in DOMAIN users}
    \cup {ApiCreateUser(t, n, r, o, None) :
            n \in NewNames \cup DOMAIN users, r \in Roles, o \in Orgs}

\* C35: a user-management request of the owner of tenant T removes no
\* user, gives a new user the tenant T, and changes of an existing user
\* nothing but the tenant, from null to T or from T to null.
C35_OwnerTouchesOwnTenantOnly ==
    \A t \in OwnerTokens :
        \A r \in OwnerOutcomes(t) :
            LET T == GetCurrentUser(t).org IN
            /\ DOMAIN users \subseteq DOMAIN r.users
            /\ \A u \in DOMAIN r.users \ DOMAIN users : r.users[u].org = T
            /\ \A u \in DOMAIN users :
                  r.users[u] # users[u] =>
                    /\ r.users[u] = [users[u] EXCEPT !.org = r.users[u].org]
                    /\ \/ users[u].org = None /\ r.users[u].org = T
                       \/ users[u].org = T /\ r.users[u].org = None

\* an owner holds a token, a user the owner created is in the store, a user
\* is detached and the owner's request to attach that user succeeds, and a
\* user of the other tenant is in the store
C35_Witness ==
    \E t \in OwnerTokens :
        /\ \E u \in DOMAIN users \ DOMAIN OwnerUsers : users[u].org = GetCurrentUser(t).org
        /\ \E u \in DOMAIN users : ApiAddExistingUser(t, u).code = 200
        /\ \E u \in DOMAIN users : users[u].org \notin {None, GetCurrentUser(t).org}

\* C36: no request of an owner to create a user leaves the store with a
\* user of role admin who was not one before.
C36_OwnerCreatesNoAdmin ==
    \A t \in OwnerTokens :
        \A n \in NewNames, r \in Roles, o \in Orgs :
            LET after == ApiCreateUser(t, n, r, o, None).users
            IN  \A u \in DOMAIN after :
                    after[u].role = "admin" =>
                        u \in DOMAIN users /\ users[u].role = "admin"

\* C37: neither remove-user nor add-existing sent by an owner changes the
\* tenant of a user whose role is admin.
C37_OwnerLeavesAdminsAlone ==
    \A t \in OwnerTokens, target \in DOMAIN users :
        \A r \in {ApiDeleteUser(t, target), ApiAddExistingUser(t, target)} :
            \A u \in DOMAIN users :
                users[u].role = "admin" =>
                    u \in DOMAIN r.users /\ r.users[u].org = users[u].org

----------------------------------------------------------------------------
(* Properties of authentication over changes of membership                 *)

\* C38: a token that was issued is accepted if and only if, in the present
\* store, the user it names exists and the user's tenant is not null and
\* is the tenant the token names; whatever the user's tenant was before.
C38_AcceptanceReadsStoreOnly ==
    \A t \in tokens :
        GetCurrentUser(t).ok <=>
            /\ t.uid \in DOMAIN users
            /\ users[t.uid].org # None
            /\ users[t.uid].org = t.org

\* the supplier holds the token of T1 issued at the start, has since been
\* detached, attached to T2 (where a token was issued) and detached, and is
\* attached to T1 again: the first token is accepted, the one of T2 is not
C38_Witness ==
    /\ {[uid |-> "sup", org |-> "T1"], [uid |-> "sup", org |-> "T2"]} \subseteq tokens
    /\ users["sup"].org = "T1"
    /\ GetCurrentUser([uid |-> "sup", org |-> "T1"]).ok
    /\ ~GetCurrentUser([uid |-> "sup", org |-> "T2"]).ok

----------------------------------------------------------------------------
(* Properties of what an update and a transition leave alone               *)

\* the fields of a shipment row other than current_status
DataFields == DOMAIN NewShipment(<<>>, Payload("FF_A", BagsOne), "T1") \ {"current_status"}

\* C39: no step removes a shipment or gives one another id.  A step that
\* changes a shipment's row is an update, which adds change log rows and
\* leaves the row's tenant and current_status and the status history as
\* they were, or a transition, which adds a history row and leaves every
\* field of the row but current_status, and the change log, as they were.
C39_UpdateAndTransitionFrames ==
    [][\A sid \in DOMAIN shipments :
          /\ sid \in DOMAIN shipments'
          /\ shipments'[sid] # shipments[sid] =>
                \/ /\ changelog' # changelog
                   /\ history' = history
                   /\ shipments'[sid].org = shipments[sid].org
                   /\ shipments'[sid].current_status = shipments[sid].current_status
                \/ /\ history' # history
                   /\ changelog' = changelog
                   /\ \A f \in DataFields : shipments'[sid][f] = shipments[sid][f]]_vars

\* a shipment has been moved and has been edited
C39_Witness ==
    \E sid \in DOMAIN shipments :
        /\ RowsOf(history, sid) # {}
        /\ \E i \in 1..Len(changelog) : changelog[i].shipment_id = sid
        /\ shipments[sid].current_status # Unconfirmed
        /\ shipments[sid].warehouse = "W2"

----------------------------------------------------------------------------
(* Properties of SpecLive *)

\* C40: every shipment eventually is DELIVERED with exactly three rows in
\* its status history, one for each accepted transition.
C40_DeliveredAfterThreeTransitions ==
    \A sid \in DOMAIN AtCreation :
        <>(/\ shipments[sid].current_status = "DELIVERED"
           /\ Cardinality(RowsOf(history, sid)) = 3)

====
